---- MODULE Spec2Model ----
(***************************************************************************)
(* A model of sintautils' author-verification scraper: the AV front end    *)
(* (core.py) and the UtilBackEnd scrapers (backend.py).  Strings are TLA+  *)
(* strings handled character by character, so that strip, split, replace,  *)
(* substring tests and int() are modelled by what they do.                 *)
(***************************************************************************)
EXTENDS Integers, Sequences, FiniteSets, TLC

(***************************************************************************)
(* Python string primitives used by the code.                              *)
(***************************************************************************)

\* The i-th character of s, as a one-character string.
CharAt(s, i) == SubSeq(s, i, i)

Whitespace == {" ", "\t", "\n"}

Digits == {"0", "1", "2", "3", "4", "5", "6", "7", "8", "9"}

DigitVal == ("0" :> 0) @@ ("1" :> 1) @@ ("2" :> 2) @@ ("3" :> 3) @@ ("4" :> 4)
            @@ ("5" :> 5) @@ ("6" :> 6) @@ ("7" :> 7) @@ ("8" :> 8) @@ ("9" :> 9)

\* str.strip(): what lies between the first and the last character that
\* is not whitespace.
Strip(s) ==
    LET keep == {n \in 1..Len(s) : CharAt(s, n) \notin Whitespace}
    IN  IF keep = {} THEN ""
        ELSE SubSeq(s, CHOOSE n \in keep : \A m \in keep : n <= m,
                       CHOOSE n \in keep : \A m \in keep : m <= n)

\* The positions at which sub occurs in s.
Occurrences(s, sub) ==
    {n \in 1..(Len(s) - Len(sub) + 1) : SubSeq(s, n, n + Len(sub) - 1) = sub}

\* sub in s
Contains(s, sub) == Occurrences(s, sub) # {}

\* s.find(sub) + 1, for sub in s.
FirstIndex(s, sub) ==
    LET occ == Occurrences(s, sub) IN CHOOSE n \in occ : \A m \in occ : n <= m

\* s.replace(old, new), old non-empty: every non-overlapping occurrence, left to right.
RECURSIVE Replace(_, _, _)
Replace(s, old, new) ==
    IF ~Contains(s, old) THEN s
    ELSE LET n == FirstIndex(s, old)
         IN  SubSeq(s, 1, n - 1) \o new
             \o Replace(SubSeq(s, n + Len(old), Len(s)), old, new)

\* s.split(sep), sep non-empty: the pieces between the occurrences of sep.
RECURSIVE Split(_, _)
Split(s, sep) ==
    IF ~Contains(s, sep) THEN <<s>>
    ELSE LET n == FirstIndex(s, sep)
         IN  <<SubSeq(s, 1, n - 1)>> \o Split(SubSeq(s, n + Len(sep), Len(s)), sep)

\* A slice that keeps the whole text.
Last4_whole(s) == s

\* s[-4:]
Last4(s) == IF Len(s) <= 4 THEN s ELSE SubSeq(s, Len(s) - 3, Len(s))

\* The digits-and-underscores body int() accepts: digits, with single
\* underscores only between two digits.
IntBodyOK(b) ==
    /\ Len(b) > 0
    /\ \A i \in 1..Len(b) : CharAt(b, i) \in Digits \cup {"_"}
    /\ CharAt(b, 1) # "_"
    /\ CharAt(b, Len(b)) # "_"
    /\ \A i \in 1..(Len(b) - 1) : ~(CharAt(b, i) = "_" /\ CharAt(b, i + 1) = "_")

\* The text int() reads after trimming and after an optional sign.
IntBody(s) ==
    LET t == Strip(s)
    IN  IF Len(t) > 0 /\ CharAt(t, 1) \in {"+", "-"} THEN SubSeq(t, 2, Len(t)) ELSE t

\* int(s) does not raise ValueError.
IntParses(s) == IntBodyOK(IntBody(s))

RECURSIVE DigitsValue(_, _)
DigitsValue(b, acc) ==
    IF Len(b) = 0 THEN acc
    ELSE IF CharAt(b, 1) = "_" THEN DigitsValue(SubSeq(b, 2, Len(b)), acc)
         ELSE DigitsValue(SubSeq(b, 2, Len(b)), 10 * acc + DigitVal[CharAt(b, 1)])

\* int(s), for s with IntParses(s).
IntValue(s) ==
    LET t == Strip(s)
        v == DigitsValue(IntBody(s), 0)
    IN  IF Len(t) > 0 /\ CharAt(t, 1) = "-" THEN 0 - v ELSE v

DigitChar == <<"0", "1", "2", "3", "4", "5", "6", "7", "8", "9">>

\* str(n) for an integer n.
RECURSIVE NatToStr(_)
NatToStr(n) ==
    IF n < 10 THEN DigitChar[n + 1] ELSE NatToStr(n \div 10) \o DigitChar[(n % 10) + 1]

IntToStr(n) == IF n < 0 THEN "-" \o NatToStr(0 - n) ELSE NatToStr(n)

\* A string of decimal digits only (and at least one).
DigitsOnly(s) == Len(s) > 0 /\ \A i \in 1..Len(s) : CharAt(s, i) \in Digits

(***************************************************************************)
(* Program constants.                                                      *)
(***************************************************************************)

LOGIN_URL == "https://sinta.kemdikbud.go.id/authorverification/login/do_login"

URL_AUTHOR_SCOPUS == "https://sinta.kemdikbud.go.id/authorverification/author/profile/%%%?view=scopus"

URL_AUTHOR_WOS == "https://sinta.kemdikbud.go.id/authorverification/author/profile/%%%?view=wos"

URL_AUTHOR_GSCHOLAR == "https://sinta.kemdikbud.go.id/authorverification/author/profile/%%%?view=google"

Sources == {"gscholar", "scopus", "wos"}

\* The URL template each scrape_<source> starts from.
UrlTemplate(s) ==
    CASE s = "gscholar" -> URL_AUTHOR_GSCHOLAR
      [] s = "scopus" -> URL_AUTHOR_SCOPUS
      [] s = "wos" -> URL_AUTHOR_WOS

\* The label that marks the author slot of a row.
Label(s) ==
    CASE s = "gscholar" -> "Author :"
      [] s = "scopus" -> "Creator :"
      [] s = "wos" -> "Authors :"

\* The fields of a source, in the order the code fills its dicts.
Schema(s) ==
    CASE s = "gscholar" -> <<"title", "author", "journal", "year", "citations", "url">>
      [] s = "scopus" -> <<"title", "author", "journal", "type", "year", "citations",
                           "quartile", "url">>
      [] s = "wos" -> <<"title", "author", "journal", "year", "citations", "quartile", "url">>

Range(q) == {q[n] : n \in 1..Len(q)}

SchemaSet(s) == Range(Schema(s))

\* The accepted out_format values.
OutFormats == {"csv", "json"}

(***************************************************************************)
(* Outcomes of a call: nothing yet, a returned value, or a raised          *)
(* exception.  A returned value is a Python list, a dict or None.          *)
(***************************************************************************)

NoOutcome == [kind |-> "none", exc |-> "", arg |-> "", shape |-> "none", value |-> <<>>]

Raise(e, arg) == [kind |-> "raise", exc |-> e, arg |-> arg, shape |-> "none", value |-> <<>>]

Return(shape, v) == [kind |-> "return", exc |-> "", arg |-> "", shape |-> shape, value |-> v]

\* None: what _http_get_with_exception hands back when it falls off its
\* last elif.
NoResponse == [kind |-> "None", url |-> ""]

\* A variable not assigned yet.
Unset == [kind |-> "unset", url |-> ""]

Response(resolved) == [kind |-> "response", url |-> resolved]

NoDoc == [caption |-> <<>>, rows |-> <<>>]

(***************************************************************************)
(* UtilBackEnd: the pure parts.                                            *)
(***************************************************************************)

\* validate_author_id(n): int(str(n)) does not raise ValueError.
validate_author_id(n) == IntParses(n)

\* _http_get_with_exception with the two elif branches in the other order.
http_get_all_before_login(url, resolved, author_id) ==
    IF resolved = url
    THEN Return("response", Response(resolved))
    ELSE IF Contains(resolved, "authorverification/author/all")
         THEN Raise("AuthorIDNotFound", author_id)
         ELSE IF Contains(resolved, "authorverification/login")
              THEN Raise("InvalidLoginCredential", "")
              ELSE Return("None", NoResponse)

\* _http_get_with_exception(url, author_id), given the URL the GET resolved
\* to: the response, an exception, or (no branch taken) None.
http_get_with_exception(url, resolved, author_id) ==
    IF resolved = url
    THEN Return("response", Response(resolved))
    ELSE IF Contains(resolved, "authorverification/login")
         THEN Raise("InvalidLoginCredential", "")
         ELSE IF Contains(resolved, "authorverification/author/all")
              THEN Raise("AuthorIDNotFound", author_id)
              ELSE Return("None", NoResponse)

\* The pagination block with a fallback of no page at all.
page_count_zero_fallback(caption) ==
    IF Len(caption) = 0
    THEN [kind |-> "ok", page_to |-> 0]
    ELSE LET s == Split(Replace(Split(Strip(caption[1]), "|")[1], "Page", ""), "of")
         IN  IF Len(s) < 2
             THEN [kind |-> "ok", page_to |-> 0]
             ELSE IF IntParses(Strip(s[2]))
                  THEN [kind |-> "ok", page_to |-> IntValue(Strip(s[2]))]
                  ELSE [kind |-> "raise", page_to |-> 0]

\* The pagination block: caption is what the caption xpath yields on the
\* first page (a list of texts).  [0] of an empty list and [1] of a split
\* without "of" raise IndexError, which the code turns into page_to = 1;
\* int() of a non-number raises ValueError, which it does not catch.
page_count(caption) ==
    IF Len(caption) = 0
    THEN [kind |-> "ok", page_to |-> 1]
    ELSE LET s == Split(Replace(Split(Strip(caption[1]), "|")[1], "Page", ""), "of")
         IN  IF Len(s) < 2
             THEN [kind |-> "ok", page_to |-> 1]
             ELSE IF IntParses(Strip(s[2]))
                  THEN [kind |-> "ok", page_to |-> IntValue(Strip(s[2]))]
                  ELSE [kind |-> "raise", page_to |-> 0]

\* The row loop without the label test: the author slot taken as it is.
extract_field_unguarded(s, f, slot) ==
    IF Len(slot) = 0 THEN ""
    ELSE IF f = "author"
         THEN Strip(Replace(slot[1], Label(s), ""))
         ELSE IF f = "year" /\ s = "wos"
              THEN Last4(Strip(slot[1]))
              ELSE Strip(slot[1])

\* The value one row contributes to one column: slot is what the field's
\* xpath yields inside the row (a list of texts); an empty list raises
\* IndexError, which the code turns into ''.
extract_field(s, f, slot) ==
    IF Len(slot) = 0 THEN ""
    ELSE IF f = "author"
         THEN IF Contains(slot[1], Label(s))
              THEN Strip(Replace(slot[1], Label(s), ""))
              ELSE ""
         ELSE IF f = "year" /\ s = "wos"
              THEN Last4(Strip(slot[1]))
              ELSE Strip(slot[1])

\* The row loop whose label test has no else branch: nothing is appended to
\* the author column when the label is missing.
append_row_no_else(s, columns, row) ==
    [f \in SchemaSet(s) |->
        IF f = "author" /\ Len(row[f]) > 0 /\ ~Contains(row[f][1], Label(s))
        THEN columns[f]
        ELSE Append(columns[f], extract_field(s, f, row[f]))]

\* The row loop with except branches that append nothing.
append_row_skip_missing(s, columns, row) ==
    [f \in SchemaSet(s) |->
        IF Len(row[f]) = 0 THEN columns[f]
        ELSE Append(columns[f], extract_field(s, f, row[f]))]

\* One iteration of "for a in c_base": every column gets one value.
append_row(s, columns, row) ==
    [f \in SchemaSet(s) |-> Append(columns[f], extract_field(s, f, row[f]))]

\* The row loop going through the rows of a page from the last to the first.
RECURSIVE extract_rows_backwards(_, _, _)
extract_rows_backwards(s, columns, rows) ==
    IF Len(rows) = 0 THEN columns
    ELSE append_row(s, extract_rows_backwards(s, columns, Tail(rows)), Head(rows))

\* The whole "for a in c_base" loop over the rows of a page.
RECURSIVE extract_rows(_, _, _)
extract_rows(s, columns, rows) ==
    IF Len(rows) = 0 THEN columns
    ELSE extract_rows(s, append_row(s, columns, Head(rows)), Tail(rows))

\* s1, s2, ... = [], [], ...
empty_columns(s) == [f \in SchemaSet(s) |-> <<>>]

\* len(s1) == len(s2) == ... == len(sn)
equal_lengths(s, columns) ==
    \A f \in SchemaSet(s) : Len(columns[f]) = Len(columns["title"])

\* If-chains that let every field through.
selected_all(s, flds) == SchemaSet(s)

\* The fields the if-chains of the dict builders let through.
selected(s, flds) ==
    {f \in SchemaSet(s) : "*" \in Range(flds) \/ f \in Range(flds)}

\* t built with the keys of empty values left out.
forge_json_skip_empty(s, columns, flds) ==
    [j \in 1..Len(columns["title"]) |->
        [f \in {g \in selected(s, flds) : columns[g][j] # ""} |-> columns[f][j]]]

\* t: one dict per index of s1.
forge_json(s, columns, flds) ==
    [j \in 1..Len(columns["title"]) |-> [f \in selected(s, flds) |-> columns[f][j]]]

\* d built with the first entry of every column left out.
forge_csv_tail(s, columns, flds) ==
    [f \in selected(s, flds) |-> IF Len(columns[f]) = 0 THEN columns[f] ELSE Tail(columns[f])]

\* d built with the empty values left out of the columns.
forge_csv_skip_empty(s, columns, flds) ==
    [f \in selected(s, flds) |-> SelectSeq(columns[f], LAMBDA v : v # "")]

\* d: field -> column.
forge_csv(s, columns, flds) == [f \in selected(s, flds) |-> columns[f]]

\* The keys of d in insertion order: what list.extend(d) appends.
dict_keys(s, flds) == SelectSeq(Schema(s), LAMBDA f : f \in selected(s, flds))

\* The value scrape_<source> returns.
scrape_result(s, columns, fmt, flds) ==
    IF fmt = "json"
    THEN Return("list", forge_json(s, columns, flds))
    ELSE Return("dict", forge_csv(s, columns, flds))

\* The new records put in front of the list.
extend_front(s, acc, res, flds) ==
    IF res.shape = "list" THEN res.value \o acc ELSE dict_keys(s, flds) \o acc

\* a.extend(x) for the x a scrape returned.
extend(s, acc, res, flds) ==
    IF res.shape = "list" THEN acc \o res.value ELSE acc \o dict_keys(s, flds)

(***************************************************************************)
(* Bounds of the model, and the inputs and server answers it explores.     *)
(***************************************************************************)

\* The largest page count a first-page caption announces.
MaxPageCount == 2

\* The most result rows on the pages fetched during one call.
MaxRows == 2

\* Identifiers passed as a single string.
StrIds == {" 7 ", "-3", "x1", ""}

\* Lists of identifiers.
ListArgs == {<<>>, <<"12">>, <<"x1">>, <<"12", "34">>, <<"12", "x1">>, <<"x1", "12">>}

RECURSIVE SeqsUpTo(_, _)
SeqsUpTo(S, n) ==
    IF n = 0 THEN {<<>>}
    ELSE LET shorter == SeqsUpTo(S, n - 1)
         IN  shorter \cup {Append(q, e) : q \in {p \in shorter : Len(p) = n - 1}, e \in S}

\* The author_id arguments: a string, a list, or something else (None).
\* v holds the identifiers the argument carries, in order.
AuthorIdArgs ==
    {[shape |-> "str", v |-> <<id>>] : id \in StrIds}
    \cup {[shape |-> "list", v |-> q] : q \in ListArgs}
    \cup {[shape |-> "other", v |-> <<>>]}

OutFormatArgs == {"csv", "json", "xml"}

FieldsArgs == {<<"*">>, <<"title", "author">>}

\* Where the server may send a GET.
LOGIN_PAGE == "https://sinta.kemdikbud.go.id/authorverification/login"

ALL_AUTHORS_PAGE == "https://sinta.kemdikbud.go.id/authorverification/author/all"

LOGIN_NEXT_PAGE == "https://sinta.kemdikbud.go.id/authorverification/login?next=/authorverification/author/all"

OTHER_PAGE == "https://sinta.kemdikbud.go.id/maintenance"

DASHBOARD_PAGE == "https://sinta.kemdikbud.go.id/authorverification/dashboard"

\* The portal serves author pages to a logged-in session only: without the
\* cookie every GET ends on a login page; with it the GET may succeed, find
\* no such author, hit an expired session or land somewhere else.
GetResolved(u, loggedIn) ==
    IF loggedIn
    THEN {u, LOGIN_PAGE, ALL_AUTHORS_PAGE, LOGIN_NEXT_PAGE, OTHER_PAGE}
    ELSE {LOGIN_PAGE, LOGIN_NEXT_PAGE}

PostResolved == {DASHBOARD_PAGE, LOGIN_PAGE, OTHER_PAGE}

\* What the caption xpath may yield on a page.
Captions ==
    {<<>>, <<"Page 1">>, <<"Page 1 of many | Total Records : 5">>}
    \cup {<<" Page 1 of " \o IntToStr(b) \o " | Total Records : 5">> : b \in (0 - 1)..MaxPageCount}

\* The rows a results table may hold: each row gives, per field, what the
\* field's xpath yields inside it.
FullRow(s) ==
    [f \in SchemaSet(s) |->
        CASE f = "title" -> <<" T1 ">>
          [] f = "author" -> <<Label(s) \o " A1 ">>
          [] f = "journal" -> <<"J1">>
          [] f = "type" -> <<"Article">>
          [] f = "year" -> <<"Published 2019 ">>
          [] f = "citations" -> <<"7">>
          [] f = "quartile" -> <<"Q1">>
          [] f = "url" -> <<"http://x/1">>]

\* The author line is missing and the journal line sits in its slot.
NoLabelRow(s) ==
    [f \in SchemaSet(s) |->
        CASE f = "title" -> <<"T2", "T2b">>
          [] f = "author" -> <<"Some Journal Name">>
          [] f = "journal" -> <<>>
          [] f = "type" -> <<"Book">>
          [] f = "year" -> <<"20">>
          [] f = "citations" -> <<>>
          [] f = "quartile" -> <<" ">>
          [] f = "url" -> <<"http://x/2">>]

\* A tr without any of the expected markup (a header row).
BareRow(s) == [f \in SchemaSet(s) |-> <<>>]

RowSamples(s) == {FullRow(s), NoLabelRow(s), BareRow(s)}

\* What the author's base page may look like: any caption; its table is
\* never read.
FirstDocs(s) == {[caption |-> cap, rows |-> <<FullRow(s)>>] : cap \in Captions}

\* The caption of a page fetched with &page=: it announces more pages than
\* any first page does.
LaterCaption == <<"Page 2 of " \o IntToStr(MaxPageCount + 1) \o " | Total Records : 5">>

\* What a page fetched with &page= may look like, `used` rows having been
\* sent on the pages before it.
PageDocs(s, used) ==
    {[caption |-> LaterCaption, rows |-> rows] :
        rows \in SeqsUpTo(RowSamples(s), MaxRows - used)}

Credentials == {[username |-> "user", password |-> "secret"]}

\* An argument of AV(...): its Python type, and its text when it is a str.
StrArg(t) == [type |-> "str", v |-> t]

OtherArg(ty) == [type |-> ty, v |-> ""]

\* A call AV(username, password, autologin).
CtorCall(u, p, al) == [username |-> u, password |-> p, autologin |-> al]

\* The values tried for username and for password.
CredentialArgs ==
    {OtherArg("NoneType"), OtherArg("int"), StrArg(""), StrArg("  "), StrArg("user"),
     StrArg(" secret ")}

(***************************************************************************)
(* The state: an AV object, the call in progress and what it has done.     *)
(***************************************************************************)

VARIABLES
    op,         \* the operation called last: "none", "init", "login" or "get"
    ctor,       \* the arguments AV(...) was called with
    username,   \* AV.username
    password,   \* AV.password
    cookie,     \* the session holds the cookie of a successful login
    pc,         \* where the current call stands
    src,        \* which get_<source> was called
    author_id,  \* its author_id argument
    out_format, \* its out_format argument
    fields,     \* its fields argument
    k,          \* index of the identifier being scraped
    a,          \* the list get_<source> accumulates for a list argument
    l,          \* scrape: the trimmed identifier
    url,        \* scrape: the author's base URL
    r,          \* scrape: what the last fetch handed back
    c,          \* scrape: the last parsed document
    page_to,    \* scrape: the page count
    i,          \* scrape: the page index
    new_url,    \* scrape: the URL of the page being read
    columns,    \* scrape: s1, s2, ...: field -> column
    httpLog,    \* the HTTP requests the current call has issued
    resolved,   \* the URL the last of them resolved to
    first,      \* the author's base page as the current scrape received it
    pages,      \* the rows of each page the current scrape has read, in order
    sent,       \* the rows on the pages fetched during the current call
    outcome     \* how the current call ended

vars == <<op, ctor, username, password, cookie, pc, src, author_id, out_format, fields,
          k, a, l, url, r, c, page_to, i, new_url, columns, httpLog, resolved, first,
          pages, sent, outcome>>

av == <<ctor, username, password>>

args == <<src, author_id, out_format, fields>>

scrape == <<l, url, r, c, page_to, i, new_url, columns>>

\* The identifiers a call works through, in order.
ids == author_id.v

Get(u) == [method |-> "GET", url |-> u, data |-> <<>>]

Post(u, d) == [method |-> "POST", url |-> u, data |-> d]

Init ==
    /\ \E cr \in Credentials :
        /\ ctor = CtorCall(StrArg(cr.username), StrArg(cr.password), FALSE)
        /\ username = cr.username
        /\ password = cr.password
    /\ op = "none"
    /\ cookie = FALSE
    /\ pc = "idle"
    /\ src = "gscholar"
    /\ author_id = [shape |-> "list", v |-> <<>>]
    /\ out_format = "csv"
    /\ fields = <<"*">>
    /\ k = 0
    /\ a = <<>>
    /\ l = ""
    /\ url = ""
    /\ r = Unset
    /\ c = NoDoc
    /\ page_to = 0
    /\ i = 0
    /\ new_url = ""
    /\ columns = <<>>
    /\ httpLog = <<>>
    /\ resolved = ""
    /\ first = NoDoc
    /\ pages = <<>>
    /\ sent = 0
    /\ outcome = NoOutcome

\* The requests one login() issues.
login_requests(u, p) == <<Post(LOGIN_URL, <<u, p>>)>>

\* login() taking every URL that is not a login page for a success.
login_outcome_not_login(res) ==
    IF ~Contains(res, "login")
    THEN Return("None", <<>>)
    ELSE Raise("InvalidLoginCredential", "")

\* login(): how the call ends, given the URL the POST resolved to.
login_outcome(res) ==
    IF Contains(res, "dashboard")
    THEN Return("None", <<>>)
    ELSE Raise("InvalidLoginCredential", "")

\* AV.login, called on a session that is not logged in yet.
Login ==
    /\ pc = "idle"
    /\ ~cookie
    /\ op' = "login"
    /\ \E res \in PostResolved :
        /\ httpLog' = login_requests(username, password)
        /\ resolved' = res
        /\ r' = Response(res)
        /\ outcome' = login_outcome(res)
        /\ cookie' = (outcome'.kind = "return")
        /\ pc' = IF outcome'.kind = "return" THEN "idle" ELSE "done"
    /\ UNCHANGED <<av, args, k, a, l, url, c, page_to, i, new_url, columns, first, pages,
                   sent>>

\* get_<source> taking an empty list for a wrong argument.
get_dispatch_empty_rejected(aid) ==
    IF aid.shape = "str" \/ (aid.shape = "list" /\ Len(aid.v) > 0)
    THEN [pc |-> "validate", outcome |-> NoOutcome]
    ELSE [pc |-> "done",
          outcome |-> Raise("InvalidParameter",
                            "You can only pass list or string into this function")]

\* get_<source>: how the call starts, by the type of author_id.
get_dispatch(aid) ==
    IF aid.shape = "str" THEN [pc |-> "validate", outcome |-> NoOutcome]
    ELSE IF aid.shape = "list"
         THEN IF Len(aid.v) = 0
              THEN [pc |-> "done", outcome |-> Return("list", <<>>)]
              ELSE [pc |-> "validate", outcome |-> NoOutcome]
         ELSE [pc |-> "done",
               outcome |-> Raise("InvalidParameter",
                                 "You can only pass list or string into this function")]

\* AV.get_gscholar, AV.get_scopus, AV.get_wos: entry.
GetCall ==
    /\ pc = "idle"
    /\ \E s \in Sources, aid \in AuthorIdArgs, fmt \in OutFormatArgs, flds \in FieldsArgs :
        /\ src' = s
        /\ author_id' = aid
        /\ out_format' = fmt
        /\ fields' = flds
        /\ pc' = get_dispatch(aid).pc
        /\ outcome' = get_dispatch(aid).outcome
    /\ op' = "get"
    /\ k' = 1
    /\ a' = <<>>
    /\ httpLog' = <<>>
    /\ resolved' = ""
    /\ sent' = 0
    /\ r' = Unset
    /\ UNCHANGED <<av, cookie, l, url, c, page_to, i, new_url, columns, first, pages>>

\* scrape_<source>: the two validations, in the code's order.
validate(fmt, id) ==
    IF fmt \notin OutFormats
    THEN Raise("InvalidParameter", "\"out_format\" must be one of \"csv\" and \"json\"")
    ELSE IF ~validate_author_id(id)
         THEN Raise("InvalidAuthorID", id)
         ELSE NoOutcome

\* scrape_<source>: trimming and validating the identifier.
ScrapeValidate ==
    /\ pc = "validate"
    /\ l' = Strip(ids[k])
    /\ outcome' = validate(out_format, l')
    /\ IF outcome'.kind = "raise"
       THEN pc' = "done" /\ url' = url
       ELSE pc' = "first" /\ url' = Replace(UrlTemplate(src), "%%%", l')
    /\ UNCHANGED <<op, av, cookie, args, k, a, r, c, page_to, i, new_url, columns,
                   httpLog, resolved, first, pages, sent>>

\* A fetch whose InvalidLoginCredential is swallowed, the scrape going on.
after_fetch_skip_login(res) ==
    IF res.kind = "raise"
    THEN IF res.exc = "InvalidLoginCredential" THEN NoOutcome ELSE res
    ELSE IF res.shape = "None"
         THEN Raise("AttributeError", "'NoneType' object has no attribute 'text'")
         ELSE NoOutcome

\* A fetch whose AuthorIDNotFound is swallowed, the scrape going on.
after_fetch_skip_not_found(res) ==
    IF res.kind = "raise"
    THEN IF res.exc = "AuthorIDNotFound" THEN NoOutcome ELSE res
    ELSE IF res.shape = "None"
         THEN Raise("AttributeError", "'NoneType' object has no attribute 'text'")
         ELSE NoOutcome

\* What follows a fetch: the exception it raised, or the AttributeError of
\* reading .text of None, or nothing when a response came back.
after_fetch(res) ==
    IF res.kind = "raise" THEN res
    ELSE IF res.shape = "None"
         THEN Raise("AttributeError", "'NoneType' object has no attribute 'text'")
         ELSE NoOutcome

\* scrape_<source>: opening the author's page and reading the pagination.
ScrapeFirst ==
    /\ pc = "first"
    /\ \E res \in GetResolved(url, cookie) :
        LET got == http_get_with_exception(url, res, ids[k])
        IN  /\ httpLog' = Append(httpLog, Get(url))
            /\ resolved' = res
            /\ r' = IF got.kind = "raise" THEN r ELSE got.value
            /\ IF after_fetch(got).kind = "raise"
               THEN /\ outcome' = after_fetch(got)
                    /\ pc' = "done"
                    /\ UNCHANGED <<c, page_to, i, new_url, columns, first, pages>>
               ELSE \E doc \in FirstDocs(src) :
                    LET pg == page_count(doc.caption)
                    IN  /\ c' = doc
                        /\ first' = doc
                        /\ pages' = <<>>
                        /\ IF pg.kind = "raise"
                           THEN /\ outcome' = Raise("ValueError", "int")
                                /\ pc' = "done"
                                /\ UNCHANGED <<page_to, i, new_url, columns>>
                           ELSE /\ outcome' = outcome
                                /\ page_to' = pg.page_to
                                /\ columns' = empty_columns(src)
                                /\ new_url' = ""
                                /\ i' = 0
                                /\ pc' = IF 0 < pg.page_to THEN "page" ELSE "finish"
    /\ UNCHANGED <<op, av, cookie, args, k, a, l, url, sent>>

\* url + '&page=' + str(i)
page_url(u, n) == u \o "&page=" \o IntToStr(n)

\* scrape_<source>: one turn of "while i < page_to".
ScrapePage ==
    /\ pc = "page"
    /\ i < page_to
    /\ i' = i + 1
    /\ new_url' = page_url(url, i')
    /\ \E res \in GetResolved(new_url', cookie) :
        LET got == http_get_with_exception(new_url', res, ids[k])
        IN  /\ httpLog' = Append(httpLog, Get(new_url'))
            /\ resolved' = res
            /\ r' = IF got.kind = "raise" THEN r ELSE got.value
            /\ IF after_fetch(got).kind = "raise"
               THEN /\ outcome' = after_fetch(got)
                    /\ pc' = "done"
                    /\ UNCHANGED <<c, columns, pages, sent>>
               ELSE \E doc \in PageDocs(src, sent) :
                    /\ c' = doc
                    /\ pages' = Append(pages, doc.rows)
                    /\ sent' = sent + Len(doc.rows)
                    /\ columns' = extract_rows(src, columns, doc.rows)
                    /\ outcome' = outcome
                    /\ pc' = IF i' < page_to THEN "page" ELSE "finish"
    /\ UNCHANGED <<op, av, cookie, args, k, a, l, url, page_to, first>>

\* scrape_<source>: the length check and the value returned.
finish(s, cols, fmt, flds, pageUrl) ==
    IF ~equal_lengths(s, cols)
    THEN Raise("MalformedDOM", pageUrl)
    ELSE scrape_result(s, cols, fmt, flds)

\* scrape_<source> from the length check on, and what get_<source> does
\* with the value: return it, or extend the list and go on.
ScrapeFinish ==
    /\ pc = "finish"
    /\ LET res == finish(src, columns, out_format, fields, new_url)
       IN  IF res.kind = "raise"
           THEN outcome' = res /\ pc' = "done" /\ UNCHANGED <<a, k>>
           ELSE IF author_id.shape = "str"
                THEN outcome' = res /\ pc' = "done" /\ UNCHANGED <<a, k>>
                ELSE /\ a' = extend(src, a, res, fields)
                     /\ IF k < Len(ids)
                        THEN k' = k + 1 /\ pc' = "validate" /\ outcome' = outcome
                        ELSE k' = k /\ pc' = "done" /\ outcome' = Return("list", a')
    /\ UNCHANGED <<op, av, cookie, args, scrape, httpLog, resolved, first, pages, sent>>

\* get_ipr: self.backend.scrape_ipr is looked up for a string and for each
\* element of a list; UtilBackEnd has no such attribute.
get_ipr_dispatch(aid) ==
    IF aid.shape = "str" \/ (aid.shape = "list" /\ Len(aid.v) > 0)
    THEN Raise("AttributeError", "'UtilBackEnd' object has no attribute 'scrape_ipr'")
    ELSE IF aid.shape = "list"
         THEN Return("list", <<>>)
         ELSE Raise("InvalidParameter", "You can only pass list or string into this function")

\* AV.get_ipr: the whole call.
GetIprCall ==
    /\ pc = "idle"
    /\ \E aid \in AuthorIdArgs, fmt \in OutFormatArgs, flds \in FieldsArgs :
        /\ author_id' = aid
        /\ out_format' = fmt
        /\ fields' = flds
        /\ outcome' = get_ipr_dispatch(aid)
    /\ src' = "ipr"
    /\ op' = "get_ipr"
    /\ pc' = "done"
    /\ k' = 1
    /\ a' = <<>>
    /\ httpLog' = <<>>
    /\ resolved' = ""
    /\ sent' = 0
    /\ r' = Unset
    /\ UNCHANGED <<av, cookie, l, url, c, page_to, i, new_url, columns, first, pages>>

Next ==
    \/ Login
    \/ GetCall
    \/ GetIprCall
    \/ ScrapeValidate
    \/ ScrapeFirst
    \/ ScrapePage
    \/ ScrapeFinish

Spec == Init /\ [][Next]_vars

(***************************************************************************)
(* The field filter on its own: the if-chains of the dict builders applied *)
(* to column data, and applied once more to what they produced.            *)
(***************************************************************************)

\* The fields arguments the filter is tried with: schema names, names of
\* another source's schema, unknown names and '*', in any mix.
FieldsMix ==
    {<<>>, <<"*">>, <<"title", "author">>, <<"author", "doi">>, <<"doi">>, <<"*", "doi">>,
     <<"year", "quartile", "title">>, <<"url", "url">>}

\* The if-chains applied to x: a field -> column mapping (csv), or a list
\* of field -> value records (json), each going through the same chain.
refilter(s, x, fmt, flds) ==
    IF fmt = "csv"
    THEN forge_csv(s, x, flds)
    ELSE [j \in 1..Len(x) |-> forge_csv(s, x[j], flds)]

\* The columns of one page of rows, about to be filtered.
FilterInit ==
    /\ \E cr \in Credentials :
        /\ ctor = CtorCall(StrArg(cr.username), StrArg(cr.password), FALSE)
        /\ username = cr.username
        /\ password = cr.password
    /\ op = "filter"
    /\ cookie = FALSE
    /\ pc = "filter"
    /\ src \in Sources
    /\ author_id = [shape |-> "str", v |-> <<"12">>]
    /\ out_format \in OutFormats
    /\ fields \in FieldsMix
    /\ k = 1
    /\ a = <<>>
    /\ l = "12"
    /\ url = Replace(UrlTemplate(src), "%%%", l)
    /\ r = Response(page_url(url, 1))
    /\ \E rows \in SeqsUpTo(RowSamples(src), MaxRows) :
        /\ c = [caption |-> <<>>, rows |-> rows]
        /\ pages = <<rows>>
        /\ sent = Len(rows)
        /\ columns = extract_rows(src, empty_columns(src), rows)
    /\ page_to = 1
    /\ i = 1
    /\ new_url = page_url(url, 1)
    /\ httpLog = <<>>
    /\ resolved = new_url
    /\ first = NoDoc
    /\ outcome = NoOutcome

\* The filter applied to the columns.
Filter ==
    /\ pc = "filter"
    /\ outcome' = finish(src, columns, out_format, fields, new_url)
    /\ pc' = "refilter"
    /\ UNCHANGED <<op, av, cookie, args, k, a, scrape, httpLog, resolved, first, pages, sent>>

\* The same filter applied to what the first application returned.
Refilter ==
    /\ pc = "refilter"
    /\ outcome.kind = "return"
    /\ outcome' = Return(outcome.shape, refilter(src, outcome.value, out_format, fields))
    /\ pc' = "done"
    /\ UNCHANGED <<op, av, cookie, args, k, a, scrape, httpLog, resolved, first, pages, sent>>

FilterNext == Filter \/ Refilter

FilterSpec == FilterInit /\ [][FilterNext]_vars

(***************************************************************************)
(* Constructing an AV object.                                              *)
(***************************************************************************)

\* AV.__init__ comparing the credentials with '' as they were passed.
av_init_no_strip(u, p) ==
    IF u.type # "str" \/ p.type # "str"
    THEN Raise("NonStringParameter", "")
    ELSE IF u.v = "" \/ p.v = ""
         THEN Raise("NoLoginCredentials", "")
         ELSE NoOutcome

\* AV.__init__: the checks on username and password.
av_init(u, p) ==
    IF u.type # "str" \/ p.type # "str"
    THEN Raise("NonStringParameter", "")
    ELSE IF Strip(u.v) = "" \/ Strip(p.v) = ""
         THEN Raise("NoLoginCredentials", "")
         ELSE NoOutcome

\* AV(...) is about to be called.
CtorInit ==
    /\ ctor \in {CtorCall(u, p, al) : u \in CredentialArgs, p \in CredentialArgs,
                                      al \in BOOLEAN}
    /\ username = ""
    /\ password = ""
    /\ op = "none"
    /\ cookie = FALSE
    /\ pc = "new"
    /\ src = "gscholar"
    /\ author_id = [shape |-> "list", v |-> <<>>]
    /\ out_format = "csv"
    /\ fields = <<"*">>
    /\ k = 0
    /\ a = <<>>
    /\ l = ""
    /\ url = ""
    /\ r = Unset
    /\ c = NoDoc
    /\ page_to = 0
    /\ i = 0
    /\ new_url = ""
    /\ columns = <<>>
    /\ httpLog = <<>>
    /\ resolved = ""
    /\ first = NoDoc
    /\ pages = <<>>
    /\ sent = 0
    /\ outcome = NoOutcome

\* AV.__init__, the login of autologin=True included.
Construct ==
    /\ pc = "new"
    /\ op' = "init"
    /\ LET checked == av_init(ctor.username, ctor.password)
       IN  IF checked.kind = "raise"
           THEN /\ outcome' = checked
                /\ pc' = "done"
                /\ UNCHANGED <<username, password, cookie, httpLog, resolved, r>>
           ELSE /\ username' = ctor.username.v
                /\ password' = ctor.password.v
                /\ IF ctor.autologin
                   THEN \E res \in PostResolved :
                        /\ httpLog' = login_requests(username', password')
                        /\ resolved' = res
                        /\ r' = Response(res)
                        /\ outcome' = login_outcome(res)
                        /\ cookie' = (outcome'.kind = "return")
                        /\ pc' = IF outcome'.kind = "return" THEN "idle" ELSE "done"
                   ELSE /\ outcome' = Return("None", <<>>)
                        /\ pc' = "idle"
                        /\ UNCHANGED <<cookie, httpLog, resolved, r>>
    /\ UNCHANGED <<ctor, args, k, a, l, url, c, page_to, i, new_url, columns, first, pages,
                   sent>>

CtorNext == Construct \/ Login

CtorSpec == CtorInit /\ [][CtorNext]_vars

(***************************************************************************)
(* scraper.py: the AV class that scrapes by itself, one xpath per column   *)
(* over the whole page.  Validation, the first fetch and the pagination    *)
(* are the code of the back-end, line for line.                            *)
(***************************************************************************)

LegacySources == {"gscholar", "scopus"}

\* A row whose link holds two text nodes and whose journal line is absent.
SkewRow(s) ==
    [f \in SchemaSet(s) |->
        CASE f = "title" -> <<"T3", "T3b">>
          [] f = "journal" -> <<>>
          [] f = "author" -> <<Label(s) \o " A3">>
          [] OTHER -> <<"3">>]

\* A row whose link holds no text and whose journal line holds two text
\* nodes.
CounterSkewRow(s) ==
    [f \in SchemaSet(s) |->
        CASE f = "title" -> <<>>
          [] f = "journal" -> <<"J4", "J4b">>
          [] f = "author" -> <<"A4">>
          [] OTHER -> <<"4">>]

LegacyRows(s) == {FullRow(s), SkewRow(s), CounterSkewRow(s)}

\* What a page fetched with &page= may look like.
LegacyPageDocs(s, used) ==
    {[caption |-> LaterCaption, rows |-> rows] :
        rows \in SeqsUpTo(LegacyRows(s), MaxRows - used)}

\* What base + xpath yields on a page for field f: the matches inside every
\* tr, in document order.
RECURSIVE page_matches(_, _)
page_matches(rows, f) ==
    IF Len(rows) = 0 THEN <<>> ELSE Head(rows)[f] \o page_matches(Tail(rows), f)

\* The value a list comprehension makes of one match.
legacy_field(s, f, n) ==
    IF f = "author" THEN Strip(Replace(n, Label(s), "")) ELSE Strip(n)

\* s1.extend(...), s2.extend(...), ...: one page added to the columns.
legacy_extend(s, cols, rows) ==
    [f \in SchemaSet(s) |->
        cols[f] \o [n \in 1..Len(page_matches(rows, f)) |->
                       legacy_field(s, f, page_matches(rows, f)[n])]]

\* AV._scrape_gscholar or AV._scrape_scopus has been called on a session
\* that is logged in.
LegacyInit ==
    /\ \E cr \in Credentials :
        /\ ctor = CtorCall(StrArg(cr.username), StrArg(cr.password), TRUE)
        /\ username = cr.username
        /\ password = cr.password
    /\ op = "legacy"
    /\ cookie = TRUE
    /\ pc = "validate"
    /\ src \in LegacySources
    /\ author_id \in {[shape |-> "str", v |-> <<id>>] : id \in {"12", "x1"}}
    /\ out_format \in OutFormats
    /\ fields \in FieldsArgs
    /\ k = 1
    /\ a = <<>>
    /\ l = ""
    /\ url = ""
    /\ r = Unset
    /\ c = NoDoc
    /\ page_to = 0
    /\ i = 0
    /\ new_url = ""
    /\ columns = <<>>
    /\ httpLog = <<>>
    /\ resolved = ""
    /\ first = NoDoc
    /\ pages = <<>>
    /\ sent = 0
    /\ outcome = NoOutcome

\* AV._scrape_<source>: one turn of "while i < page_to".
LegacyPage ==
    /\ pc = "page"
    /\ i < page_to
    /\ i' = i + 1
    /\ new_url' = page_url(url, i')
    /\ \E res \in GetResolved(new_url', cookie) :
        LET got == http_get_with_exception(new_url', res, ids[k])
        IN  /\ httpLog' = Append(httpLog, Get(new_url'))
            /\ resolved' = res
            /\ r' = IF got.kind = "raise" THEN r ELSE got.value
            /\ IF after_fetch(got).kind = "raise"
               THEN /\ outcome' = after_fetch(got)
                    /\ pc' = "done"
                    /\ UNCHANGED <<c, columns, pages, sent>>
               ELSE \E doc \in LegacyPageDocs(src, sent) :
                    /\ c' = doc
                    /\ pages' = Append(pages, doc.rows)
                    /\ sent' = sent + Len(doc.rows)
                    /\ columns' = legacy_extend(src, columns, doc.rows)
                    /\ outcome' = outcome
                    /\ pc' = IF i' < page_to THEN "page" ELSE "finish"
    /\ UNCHANGED <<op, av, cookie, args, k, a, l, url, page_to, first>>

\* AV._scrape_<source>: the length check after the loop, and the return.
LegacyFinish ==
    /\ pc = "finish"
    /\ outcome' = finish(src, columns, out_format, fields, new_url)
    /\ pc' = "done"
    /\ UNCHANGED <<op, av, cookie, args, k, a, scrape, httpLog, resolved, first, pages, sent>>

LegacyNext == ScrapeValidate \/ ScrapeFirst \/ LegacyPage \/ LegacyFinish

LegacySpec == LegacyInit /\ [][LegacyNext]_vars

(***************************************************************************)
(* Properties.                                                             *)
(***************************************************************************)

\* The request the current call issued last.
LastRequest == httpLog[Len(httpLog)]

\* The current call is a get_<source> call that has fetched something.
Fetched == op = "get" /\ Len(httpLog) > 0

\* C1: an identifier that, trimmed, is not made of decimal digits only makes
\* scrape_<source> (out_format supported) fail with InvalidAuthorID before
\* any HTTP request, and validate_author_id is False for exactly those
\* strings.  Stated for a call with a single identifier, once its validation
\* is over.
C1_NonDigitIdRejected ==
    (/\ op = "get"
     /\ author_id.shape = "str"
     /\ out_format \in OutFormats
     /\ pc \notin {"idle", "validate"})
    => /\ validate_author_id(l) = DigitsOnly(l)
       /\ ~DigitsOnly(l) => /\ outcome.kind = "raise"
                            /\ outcome.exc = "InvalidAuthorID"
                            /\ httpLog = <<>>

\* C2: a list call with an invalid identifier at any position fails with
\* InvalidAuthorID, and no HTTP request has been issued for any identifier
\* of the list at the moment the error is raised.  Stated at that moment.
C2_InvalidIdInListPreNetwork ==
    (/\ op = "get"
     /\ author_id.shape = "list"
     /\ outcome.kind = "raise"
     /\ outcome.exc = "InvalidAuthorID")
    => httpLog = <<>>

\* C3: a get_<source> call with an unsupported out_format, or with an
\* author_id that is neither a string nor a list, fails with InvalidParameter
\* before any HTTP request, whatever the author_id (an empty list included).
C3_InvalidParameterPreNetwork ==
    (/\ op = "get"
     /\ out_format \notin OutFormats \/ author_id.shape = "other"
     /\ pc = "done")
    => /\ outcome.kind = "raise"
       /\ outcome.exc = "InvalidParameter"
       /\ httpLog = <<>>

\* C4: login() issues exactly one POST of (username, password) to the login
\* endpoint; it returns normally iff the URL that POST resolved to contains
\* 'dashboard', and raises InvalidLoginCredential otherwise.
C4_LoginSinglePost ==
    op = "login"
    => /\ httpLog = <<Post(LOGIN_URL, <<username, password>>)>>
       /\ (outcome.kind = "return") = Contains(resolved, "dashboard")
       /\ outcome.kind # "return"
          => outcome.kind = "raise" /\ outcome.exc = "InvalidLoginCredential"

\* A failed login: one POST, no second attempt.
C4_Witness ==
    /\ op = "login"
    /\ pc = "done"
    /\ resolved = LOGIN_PAGE
    /\ Len(httpLog) = 1
    /\ outcome.exc = "InvalidLoginCredential"

\* C5: after every GET: resolved URL equal to the requested one: the response
\* is handed back; else resolved URL containing 'authorverification/login':
\* InvalidLoginCredential; else resolved URL containing
\* 'authorverification/author/all': AuthorIDNotFound carrying the caller's
\* author id.
C5_FetchClassification ==
    Fetched
    => IF resolved = LastRequest.url
       THEN r = Response(LastRequest.url) /\ outcome.exc \notin {"InvalidLoginCredential",
                                                                "AuthorIDNotFound"}
       ELSE IF Contains(resolved, "authorverification/login")
            THEN /\ pc = "done"
                 /\ outcome.kind = "raise"
                 /\ outcome.exc = "InvalidLoginCredential"
            ELSE Contains(resolved, "authorverification/author/all")
                 => /\ pc = "done"
                    /\ outcome.kind = "raise"
                    /\ outcome.exc = "AuthorIDNotFound"
                    /\ outcome.arg = ids[k]

\* A page fetch that ends on a login URL which also names the all-authors
\* page: the login branch wins.
C5_Witness ==
    /\ Fetched
    /\ Len(httpLog) = 2
    /\ resolved = LOGIN_NEXT_PAGE
    /\ outcome.exc = "InvalidLoginCredential"

\* C6: a GET that resolves to another URL containing neither marker ends in
\* an explicit failure: _http_get_with_exception does not complete normally
\* (no value, None included, comes back) and the scrape does not go on.
C6_UnexpectedRedirectFails ==
    (/\ Fetched
     /\ resolved # LastRequest.url
     /\ ~Contains(resolved, "authorverification/login")
     /\ ~Contains(resolved, "authorverification/author/all"))
    => /\ r.kind # "None"
       /\ pc = "done"
       /\ outcome.kind = "raise"

\* C7: without a pagination caption on the first page the page count is
\* exactly 1 and nothing is raised; and when the one page then read has no
\* result row, a json call returns an empty list of records.
C7_PaginationFallback ==
    /\ (op = "get" /\ pc \in {"page", "finish"} /\ Len(first.caption) = 0)
       => page_to = 1 /\ outcome.kind = "none"
    /\ (/\ op = "get"
        /\ pc = "done"
        /\ author_id.shape = "str"
        /\ out_format = "json"
        /\ Len(first.caption) = 0
        /\ Len(pages) = 1
        /\ Len(pages[1]) = 0)
       => /\ outcome.kind = "return"
          /\ outcome.shape = "list"
          /\ Len(outcome.value) = 0

\* An author without records: no caption, one empty page, an empty result.
C7_Witness ==
    /\ op = "get"
    /\ pc = "done"
    /\ author_id.shape = "str"
    /\ out_format = "json"
    /\ Len(first.caption) = 0
    /\ page_to = 1
    /\ Len(pages) = 1
    /\ Len(pages[1]) = 0
    /\ outcome.kind = "return"

\* C8: whenever the pagination is resolved, page_to >= 1, so a scrape that
\* reaches its end has read at least one page.
C8_PageCountAtLeastOne ==
    /\ (op = "get" /\ pc \in {"page", "finish"}) => page_to >= 1
    /\ (op = "get" /\ pc = "finish") => Len(pages) >= 1

\* The key set each source declares.
DeclaredSchema(s) ==
    CASE s = "gscholar" -> {"title", "author", "journal", "year", "citations", "url"}
      [] s = "scopus" -> {"title", "author", "journal", "type", "year", "citations",
                          "quartile", "url"}
      [] s = "wos" -> {"title", "author", "journal", "year", "citations", "quartile", "url"}

RECURSIVE Flatten(_)
Flatten(qs) == IF Len(qs) = 0 THEN <<>> ELSE Head(qs) \o Flatten(Tail(qs))

\* C9: with '*' among the fields and json output, every record returned has
\* exactly the declared key set of its source, and a field whose markup is
\* absent in a row is '' in that row's record.
C9_RecordSchema ==
    (/\ op = "get"
     /\ pc = "done"
     /\ outcome.kind = "return"
     /\ out_format = "json"
     /\ "*" \in Range(fields))
    => /\ \A j \in 1..Len(outcome.value) : DOMAIN outcome.value[j] = DeclaredSchema(src)
       /\ author_id.shape = "str"
          => LET rows == Flatten(pages)
             IN  /\ Len(outcome.value) = Len(rows)
                 /\ \A j \in 1..Len(rows) : \A f \in DeclaredSchema(src) :
                        Len(rows[j][f]) = 0 => outcome.value[j][f] = ""

\* Two records, one of them from a row with absent markup.
C9_Witness ==
    /\ op = "get"
    /\ pc = "done"
    /\ outcome.kind = "return"
    /\ out_format = "json"
    /\ "*" \in Range(fields)
    /\ author_id.shape = "str"
    /\ Len(outcome.value) = 2
    /\ \E j \in 1..Len(Flatten(pages)) : Len(Flatten(pages)[j]["title"]) = 0
    /\ \E j \in 1..Len(Flatten(pages)) : Len(Flatten(pages)[j]["title"]) > 0

\* C10: reading a page leaves all columns equally long, each longer by the
\* number of rows of that page.
C10_ColumnLengths ==
    [][(op = "get" /\ pc = "page" /\ pc' \in {"page", "finish"})
       => \A f \in DeclaredSchema(src) :
            /\ Len(columns'[f]) = Len(columns[f]) + Len(c'.rows)
            /\ Len(columns'[f]) = Len(columns'["title"])]_vars

\* Two pages read, the second one with a row whose markup is partly absent.
C10_Witness ==
    /\ op = "get"
    /\ pc = "finish"
    /\ Len(pages) = 2
    /\ Len(pages[1]) = 1
    /\ Len(pages[2]) = 1
    /\ Len(pages[2][1]["journal"]) = 0
    /\ Len(columns["journal"]) = 2

\* The label each source puts in front of the author names, as the portal
\* prints it.
AuthorLabel(s) ==
    CASE s = "gscholar" -> "Author :"
      [] s = "scopus" -> "Creator :"
      [] s = "wos" -> "Authors :"

\* A call with one identifier has returned its json result.
JsonDone ==
    /\ op = "get"
    /\ pc = "done"
    /\ author_id.shape = "str"
    /\ out_format = "json"
    /\ outcome.kind = "return"

\* C11: label guard.  A row whose author slot text lacks the source's label
\* gets the author value '' (not the slot text); with the label, the value is
\* the slot text without the label, trimmed.  And a gscholar page of two
\* rows, the second without the label, asked with fields title and author,
\* gives [{title: T1, author: A1}, {title: T2, author: ''}].
C11_LabelGuard ==
    JsonDone
    => LET rows == Flatten(pages)
       IN  /\ \A j \in 1..Len(rows) :
                 Len(rows[j]["author"]) > 0
                 => LET x == rows[j]["author"][1]
                    IN  outcome.value[j]["author"] =
                            IF Contains(x, AuthorLabel(src))
                            THEN Strip(Replace(x, AuthorLabel(src), ""))
                            ELSE ""
           /\ (/\ src = "gscholar"
               /\ fields = <<"title", "author">>
               /\ rows = <<FullRow(src), NoLabelRow(src)>>)
              => outcome.value = <<[title |-> "T1", author |-> "A1"],
                                   [title |-> "T2", author |-> ""]>>

\* The two-row gscholar page of the scenario has been scraped.
C11_Witness ==
    /\ JsonDone
    /\ src = "gscholar"
    /\ fields = <<"title", "author">>
    /\ Len(pages) = 1
    /\ pages[1] = <<FullRow(src), NoLabelRow(src)>>
    /\ outcome.value[2]["author"] = ""

\* y is the last n characters of t, all of t when it is shorter.
IsLastChars(y, t, n) ==
    /\ Len(y) = (IF Len(t) < n THEN Len(t) ELSE n)
    /\ \A j \in 1..Len(y) : CharAt(y, j) = CharAt(t, Len(t) - Len(y) + j)

\* C12: in scrape_wos the year of a row is the last 4 characters of the
\* trimmed raw year text (all of it when shorter, '' when the markup is
\* absent), so 'Published 2019' gives '2019'; scrape_gscholar and
\* scrape_scopus keep the whole trimmed text.
C12_WosYearLast4 ==
    (JsonDone /\ "*" \in Range(fields))
    => LET rows == Flatten(pages)
       IN  \A j \in 1..Len(rows) :
             LET slot == rows[j]["year"]
                 y == outcome.value[j]["year"]
             IN  /\ Len(slot) = 0 => y = ""
                 /\ (Len(slot) > 0 /\ src = "wos")
                    => IsLastChars(y, Strip(slot[1]), 4)
                 /\ (Len(slot) > 0 /\ src # "wos") => y = Strip(slot[1])
                 /\ (Len(slot) > 0 /\ Strip(slot[1]) = "Published 2019")
                    => y = IF src = "wos" THEN "2019" ELSE "Published 2019"

\* A wos result with a truncated year, a short year and an absent year.
C12_Witness ==
    /\ JsonDone
    /\ "*" \in Range(fields)
    /\ src = "wos"
    /\ \E j \in 1..Len(outcome.value) :
         outcome.value[j]["year"] = "2019" /\ Flatten(pages)[j]["year"] = <<"Published 2019 ">>
    /\ \E j \in 1..Len(outcome.value) :
         outcome.value[j]["year"] = "20" \/ Len(Flatten(pages)[j]["year"]) = 0

\* A call with one identifier has returned its result.
ScrapeDone ==
    /\ op = "get"
    /\ pc = "done"
    /\ author_id.shape = "str"
    /\ outcome.kind = "return"

\* t and d are transposes of each other over the fields F.
Transposes(t, d, F) ==
    /\ DOMAIN d = F
    /\ \A j \in 1..Len(t) : DOMAIN t[j] = F
    /\ \A f \in F : Len(d[f]) = Len(t)
    /\ \A f \in F : \A j \in 1..Len(t) : t[j][f] = d[f][j]

\* C13: for the same pages and fields ['*'], the list of records t and the
\* table d of a single-identifier scrape are transposes of each other:
\* t[j][f] = d[f][j], every column of d is as long as t, and d has the keys
\* of every record of t.  The scrape builds both and returns one: the one
\* returned is compared with the other one built from the same columns.
C13_JsonCsvTranspose ==
    (ScrapeDone /\ "*" \in Range(fields))
    => LET t == IF out_format = "json" THEN outcome.value
                ELSE forge_json(src, columns, fields)
           d == IF out_format = "csv" THEN outcome.value
                ELSE forge_csv(src, columns, fields)
       IN  /\ Transposes(t, d, DeclaredSchema(src))
           /\ Len(t) = Len(Flatten(pages))

\* A table of two rows has been returned.
C13_Witness ==
    /\ ScrapeDone
    /\ "*" \in Range(fields)
    /\ out_format = "csv"
    /\ outcome.shape = "dict"
    /\ Len(Flatten(pages)) = 2
    /\ Len(outcome.value["title"]) = 2
    /\ outcome.value["journal"][2] = ""

\* C14: the field filter is idempotent: for every fields collection (schema
\* names, other names and '*' in any mix), filtering the filtered output
\* again with the same fields gives the same output, and raises nothing.
C14_FilterIdempotent ==
    [][(op = "filter" /\ pc = "refilter")
       => /\ outcome'.kind = "return"
          /\ outcome'.shape = outcome.shape
          /\ outcome'.value = outcome.value]_vars

\* A two-row result filtered twice with a mix of known and unknown names.
C14_Witness ==
    /\ op = "filter"
    /\ pc = "done"
    /\ fields = <<"author", "doi">>
    /\ Len(pages[1]) = 2
    /\ outcome.kind = "return"

\* The fields a request for flds is to emit for source s.
Recognized(s, flds) ==
    IF "*" \in Range(flds) THEN DeclaredSchema(s) ELSE Range(flds) \cap DeclaredSchema(s)

\* C15: the projection emits exactly the recognized requested fields: without
\* '*' the key set of every record, and of the table, is fields intersected
\* with the schema; other names are ignored without error; the values of the
\* emitted fields are those of the columns; with '*' the whole schema is
\* emitted.
C15_ProjectionExact ==
    (op = "filter" /\ pc = "refilter")
    => /\ outcome.kind = "return"
       /\ IF out_format = "json"
          THEN /\ Len(outcome.value) = Len(pages[1])
               /\ \A j \in 1..Len(outcome.value) :
                    /\ DOMAIN outcome.value[j] = Recognized(src, fields)
                    /\ \A f \in Recognized(src, fields) :
                         outcome.value[j][f] = columns[f][j]
          ELSE /\ DOMAIN outcome.value = Recognized(src, fields)
               /\ \A f \in Recognized(src, fields) : outcome.value[f] = columns[f]

\* A gscholar result asked with a name of the scopus schema: one key only.
C15_Witness ==
    /\ op = "filter"
    /\ pc = "refilter"
    /\ src = "gscholar"
    /\ out_format = "json"
    /\ fields = <<"year", "quartile", "title">>
    /\ Len(outcome.value) = 2
    /\ DOMAIN outcome.value[1] = {"year", "title"}

\* The base URL of an identifier's page for the source of the call.
BaseUrl(id) == Replace(UrlTemplate(src), "%%%", Strip(id))

\* A get_<source> call on a list of identifiers is running.
ListCall(fmt) ==
    /\ op = "get"
    /\ author_id.shape = "list"
    /\ out_format = fmt
    /\ pc # "idle"

\* C16: for a list of identifiers and json output the identifiers are
\* scraped one after another in list order: a request is always for the
\* current identifier, the next identifier is taken up only when the scrape
\* of the current one is over, and each finished scrape appends its records
\* (what the single-identifier scrape returns for the same pages) to the
\* list, which is returned after the last identifier.
C16_SequentialConcat ==
    [][(ListCall("json") /\ op' = "get")
       => /\ k' \in {k, k + 1}
          /\ k' = k + 1 => (pc = "finish" /\ i >= page_to /\ httpLog' = httpLog)
          /\ httpLog' # httpLog
             => \E u \in {BaseUrl(ids[k]), BaseUrl(ids[k]) \o "&page=" \o IntToStr(i + 1)} :
                    httpLog' = Append(httpLog, Get(u))
          /\ (pc = "finish" /\ outcome'.kind # "raise")
             => /\ a' = a \o scrape_result(src, columns, "json", fields).value
                /\ IF k < Len(ids)
                   THEN k' = k + 1 /\ pc' = "validate"
                   ELSE pc' = "done" /\ outcome' = Return("list", a')
          /\ pc # "finish" => a' = a]_vars

\* Two identifiers scraped in turn, one record each, returned in list order.
C16_Witness ==
    /\ ListCall("json")
    /\ pc = "done"
    /\ ids = <<"12", "34">>
    /\ outcome.kind = "return"
    /\ Len(outcome.value) = 2
    /\ outcome.value[1] # outcome.value[2]
    /\ Len(httpLog) = 4
    /\ httpLog[2].url = BaseUrl("12") \o "&page=1"
    /\ httpLog[3].url = BaseUrl("34")

\* C17: for a list of identifiers the value returned is a record sequence,
\* one field -> value record per scraped row, for out_format json and for
\* out_format csv alike.  Stated for fields with '*': as many elements as
\* rows were scraped, each with the keys of the schema.
C17_ListReturnsRecords ==
    (/\ op = "get"
     /\ author_id.shape = "list"
     /\ out_format \in OutFormats
     /\ "*" \in Range(fields)
     /\ pc = "done"
     /\ outcome.kind = "return")
    => /\ outcome.shape = "list"
       /\ Len(outcome.value) = sent
       /\ \A j \in 1..Len(outcome.value) : DOMAIN outcome.value[j] = DeclaredSchema(src)

\* The last fetch of the call was sent to the all-authors page: the portal
\* knows no such author.
NotFoundFetch ==
    /\ Fetched
    /\ resolved # LastRequest.url
    /\ ~Contains(resolved, "authorverification/login")
    /\ Contains(resolved, "authorverification/author/all")

\* C18: all-or-nothing batch.  In a list call, when a fetch for an
\* identifier after the first fails with AuthorIDNotFound, the call fails
\* with that error, hands no record to the caller (those of the earlier
\* identifiers included), and nothing is fetched afterwards.
C18_BatchAllOrNothing ==
    /\ [](( /\ op = "get"
            /\ author_id.shape = "list"
            /\ k >= 2
            /\ NotFoundFetch)
          => /\ pc = "done"
             /\ outcome.kind = "raise"
             /\ outcome.exc = "AuthorIDNotFound"
             /\ outcome.arg = ids[k]
             /\ Len(outcome.value) = 0)
    /\ [][(op = "get" /\ outcome.kind = "raise") => UNCHANGED vars]_vars

\* The second identifier is not found after a record of the first one was
\* extracted.
C18_Witness ==
    /\ op = "get"
    /\ author_id.shape = "list"
    /\ out_format = "json"
    /\ k = 2
    /\ k < Len(ids) + 1
    /\ NotFoundFetch
    /\ Len(a) >= 1
    /\ outcome.exc = "AuthorIDNotFound"

\* The URLs a scrape of n pages requests, in order: the base page, then
\* page 1 to page n.
RECURSIVE PageRequests(_, _)
PageRequests(u, n) ==
    IF n <= 0 THEN <<Get(u)>>
    ELSE Append(PageRequests(u, n - 1), Get(u \o "&page=" \o IntToStr(n)))

\* C19: the records of one author are in page-then-row order: pages are read
\* in ascending index, record j comes from the j-th row so read, there are
\* as many records as rows on all pages, and equal rows stay separate.
C19_PageThenRowOrder ==
    (JsonDone /\ "*" \in Range(fields))
    => LET rows == Flatten(pages)
       IN  /\ httpLog = PageRequests(BaseUrl(ids[1]), page_to)
           /\ Len(pages) = (IF page_to > 0 THEN page_to ELSE 0)
           /\ Len(outcome.value) = Len(rows)
           /\ \A j \in 1..Len(rows) : \A f \in DeclaredSchema(src) :
                outcome.value[j][f] = extract_field(src, f, rows[j][f])

\* Two pages of one row each: the record of page 1 comes first.
C19_Witness ==
    /\ JsonDone
    /\ "*" \in Range(fields)
    /\ Len(pages) = 2
    /\ pages[1] = <<NoLabelRow(src)>>
    /\ pages[2] = <<FullRow(src)>>
    /\ outcome.value[1]["title"] = "T2"
    /\ outcome.value[2]["title"] = "T1"

\* The key set declared for the patent/IP index.
IprSchema ==
    {"title", "application_no", "inventor", "patent_holder", "category", "year", "status"}

\* C20: get_ipr runs the pipeline of the citation sources: called on a
\* logged-in session with a valid identifier, json output and fields ['*'],
\* it returns a list of records, each with exactly the keys title,
\* application_no, inventor, patent_holder, category, year, status.
C20_IprPipeline ==
    (/\ op = "get_ipr"
     /\ pc = "done"
     /\ cookie
     /\ author_id.shape = "str"
     /\ DigitsOnly(Strip(ids[1]))
     /\ out_format = "json"
     /\ "*" \in Range(fields))
    => /\ outcome.kind = "return"
       /\ outcome.shape = "list"
       /\ \A j \in 1..Len(outcome.value) : DOMAIN outcome.value[j] = IprSchema

\* C21: AV(username, password, autologin): a username or password that is
\* not a str: NonStringParameter; else one that is empty once trimmed:
\* NoLoginCredentials; both without any HTTP request.  With valid credentials:
\* no request when autologin is False, exactly one login attempt when it is
\* True, whose failure fails the construction with InvalidLoginCredential.
C21_Constructor ==
    op = "init"
    => LET u == ctor.username
           p == ctor.password
       IN  IF u.type # "str" \/ p.type # "str"
           THEN /\ outcome.kind = "raise"
                /\ outcome.exc = "NonStringParameter"
                /\ httpLog = <<>>
           ELSE IF Strip(u.v) = "" \/ Strip(p.v) = ""
                THEN /\ outcome.kind = "raise"
                     /\ outcome.exc = "NoLoginCredentials"
                     /\ httpLog = <<>>
                ELSE IF ~ctor.autologin
                     THEN outcome.kind = "return" /\ httpLog = <<>>
                     ELSE /\ httpLog = <<Post(LOGIN_URL, <<u.v, p.v>>)>>
                          /\ (outcome.kind = "return") = Contains(resolved, "dashboard")
                          /\ outcome.kind # "return"
                             => (outcome.kind = "raise"
                                 /\ outcome.exc = "InvalidLoginCredential")

\* A construction with autologin whose login attempt fails.
C21_Witness ==
    /\ op = "init"
    /\ ctor.autologin
    /\ ctor.username = StrArg("user")
    /\ Len(httpLog) = 1
    /\ outcome.exc = "InvalidLoginCredential"

\* The last fetch of the call ended on a login page or on the all-authors
\* page: an authentication or a not-found failure.
FailedFetch ==
    /\ Fetched
    /\ resolved # LastRequest.url
    /\ \/ Contains(resolved, "authorverification/login")
       \/ Contains(resolved, "authorverification/author/all")

\* C22: no retry, immediate propagation.  Once a fetch of a scrape (of the
\* base page or of page k) fails with an authentication or not-found error,
\* the call is over with that error and without records, no URL has been
\* requested twice, and no request follows.
C22_NoRetry ==
    /\ []((op = "get" /\ FailedFetch)
          => /\ pc = "done"
             /\ outcome.kind = "raise"
             /\ outcome.exc = (IF Contains(resolved, "authorverification/login")
                               THEN "InvalidLoginCredential" ELSE "AuthorIDNotFound")
             /\ Len(outcome.value) = 0
             /\ \A p \in 1..Len(httpLog) : \A q \in 1..Len(httpLog) :
                    httpLog[p] = httpLog[q] => p = q)
    /\ [][(op = "get" /\ FailedFetch) => httpLog' = httpLog]_vars

\* The fetch of page 2 fails after page 1 gave a row.
C22_Witness ==
    /\ op = "get"
    /\ author_id.shape = "str"
    /\ FailedFetch
    /\ Len(httpLog) = 3
    /\ i = 2
    /\ Len(pages) = 1
    /\ Len(columns["title"]) = 1
    /\ outcome.kind = "raise"

\* Every column xpath matches equally often on a page of these rows.
PageAligned(s, rows) ==
    \A f \in DeclaredSchema(s) : Len(page_matches(rows, f)) = Len(page_matches(rows, "title"))

\* The pages read so far whose columns are of unequal length.
Misaligned == {n \in 1..Len(pages) : ~PageAligned(src, pages[n])}

\* C23: the equal-length check is applied per page.  When the columns of
\* page k are of unequal length, the call fails with MalformedDocument
\* naming the URL of page k, no page after k is fetched and no records are
\* built, whatever the pages after k would hold.  Stated for the scrapers of
\* scraper.py, at the end of a call.
C23_PerPageCheck ==
    (op = "legacy" /\ pc = "done" /\ Misaligned # {})
    => LET n == CHOOSE m \in Misaligned : \A o \in Misaligned : m <= o
       IN  /\ outcome.kind = "raise"
           /\ outcome.exc = "MalformedDOM"
           /\ outcome.arg = page_url(url, n)
           /\ Len(pages) = n

\* C24: a successful scrape of one identifier issues exactly 1 + N GETs, N
\* being the page count read from the first response: the base URL, then
\* &page=1 .. &page=N in ascending order, each once; the captions of later
\* pages never change N; the page index never passes N.
C24_RequestSequence ==
    /\ (op = "get" /\ author_id.shape = "str" /\ pc \in {"page", "finish"})
       => /\ page_to = page_count(first.caption).page_to
          /\ i <= (IF page_to > 0 THEN page_to ELSE 0)
    /\ ScrapeDone
       => /\ Len(httpLog) = 1 + page_to
          /\ httpLog[1] = Get(BaseUrl(ids[1]))
          /\ \A n \in 1..(Len(httpLog) - 1) :
                httpLog[n + 1] = Get(BaseUrl(ids[1]) \o "&page=" \o IntToStr(n))

\* C25: in the scrapers of backend.py MalformedDocument cannot happen: every
\* row appends one value to every column, so the columns are equally long
\* whenever the page loop stands between two pages or has ended, and the
\* final length check never fails, whatever the pages hold.
C25_MalformedUnreachable ==
    op = "get"
    => /\ outcome.exc # "MalformedDOM"
       /\ pc \in {"page", "finish"}
          => \A f \in DeclaredSchema(src) :
                /\ Len(columns[f]) = Len(columns["title"])
                /\ Len(columns[f]) = Len(Flatten(pages))

\* A scrape has ended well on rows whose markup is partly absent, partly
\* doubled.
C25_Witness ==
    /\ ScrapeDone
    /\ Len(pages) = 1
    /\ pages[1] = <<NoLabelRow(src), BareRow(src)>>
    /\ Len(columns["title"]) = 2
    /\ Len(columns["journal"]) = 2

\* C26: get_gscholar, get_ipr, get_scopus and get_wos called with an empty
\* list return an empty list, issue no HTTP request and raise nothing, for
\* every out_format and fields, logged in or not.
C26_EmptyListNoop ==
    (/\ op \in {"get", "get_ipr"}
     /\ author_id.shape = "list"
     /\ Len(ids) = 0)
    => /\ pc = "done"
       /\ outcome.kind = "return"
       /\ outcome.shape = "list"
       /\ Len(outcome.value) = 0
       /\ Len(httpLog) = 0

\* get_wos([], out_format='xml') on a session that never logged in.
C26_Witness ==
    /\ op = "get"
    /\ src = "wos"
    /\ author_id.shape = "list"
    /\ Len(ids) = 0
    /\ out_format = "xml"
    /\ ~cookie
    /\ outcome.kind = "return"

====
